---------------------------- MODULE Spec2Model ----------------------------
(***************************************************************************)
(* State-machine model of src/app.js: the build loop over planetsData, the *)
(* animation loop (animate), the pause flag, the hover and click handlers  *)
(* with their raycast, and the Mars overlay with its dismissal timers.     *)
(*                                                                         *)
(* Units.  Time is in milliseconds.  Speeds are in 1/1000 rad (0.02 is     *)
(* 20), so a rotation angle is in 1/1000000 rad: the code's                *)
(* speed * delta * 60 with delta in seconds is speed * deltaMs * 60 here.  *)
(* Normalised device coordinates are stored doubled (mouse.x = -0.5 is -1).*)
(* All arithmetic is exact; IEEE rounding of the doubles is not modelled.  *)
(***************************************************************************)
EXTENDS Integers, Sequences, FiniteSets, TLC

VARIABLES
    pc,                \* "build" (forEach running), "start" (before line 210), "run"
    catalog,           \* planetsData
    buildIdx,          \* number of planetsData entries the forEach has processed
    sceneChildren,     \* scene.children restricted to meshes and orbit groups
    children,          \* Object3D.children of every node created
    userData,          \* mesh.userData of every mesh created
    planetOrbits,      \* line 131
    hoverablePlanets,  \* line 132
    rotation,          \* group.rotation.y of every orbit group
    animationActive,   \* line 186
    clock,             \* THREE.Clock: running, oldTime
    now,               \* the wall clock, ms
    controlsUpdates,   \* number of controls.update() calls
    renders,           \* number of renderer.render() calls
    win,               \* window.innerWidth / innerHeight
    mouse,             \* line 36, doubled NDC
    view,              \* camera pose, projection and body positions (which ray meets what)
    recursive,         \* default of Raycaster.intersectObjects' second parameter: TRUE
                       \* from three r127 on, FALSE before
    tooltip,           \* style.display, innerHTML (name, funFact), style.left, style.top
    gifOverlay,        \* the #gifOverlay element: exists, style.display
    timers,            \* pending setTimeout callbacks: their due times, in creation order
    lastPick,          \* history: the last mousemove or click: its inputs, the scene then, its
                       \* hit; seq flips at every click
    lastFrame,         \* history: the last animate call: its delta, the flag, the angles before
    lastButton,        \* history: the most recent of mousedown / mouseup
    lastTrigger,       \* history: time of the latest showGifOverlay call, -1 if none
    sumRunning,        \* history: sum of the deltas of the frames run while Running
    lastFrameTime      \* history: time of the previous animate call, -1 if none

vars == <<pc, catalog, buildIdx, sceneChildren, children, userData, planetOrbits,
          hoverablePlanets, rotation, animationActive, clock, now, controlsUpdates,
          renders, win, mouse, view, recursive, tooltip, gifOverlay, timers,
          lastPick, lastFrame, lastButton, lastTrigger, sumRunning, lastFrameTime>>

graphVars == <<sceneChildren, children, userData, planetOrbits, hoverablePlanets>>
buildVars == <<catalog, buildIdx>>
overlayVars == <<gifOverlay, timers, lastTrigger>>
frameVars == <<rotation, clock, controlsUpdates, renders, sumRunning, lastFrameTime, lastFrame>>
flagVars == <<animationActive, lastButton>>

-----------------------------------------------------------------------------
(* Bounds of the exploration *)

AnimTicks == 5         \* SpecAnim: ticks of 1000 ms after which the wall clock stops
AnimFrames == 4        \* SpecAnim: animate calls explored
OverlayTicks == 8      \* SpecOverlay: ticks of 1000 ms
OverlayTimers == 2     \* SpecOverlay, SpecLive: pending dismissals explored
LiveTicks == 6         \* SpecLive: ticks of 1000 ms
SideFrames == 1        \* the other specifications: animate calls explored
SideTimers == 1        \* the other specifications: pending dismissals explored
BuildLen == 2          \* SpecBuild: longest generated catalog

-----------------------------------------------------------------------------
(* Planetary data, lines 60-128 *)

Planet(n, s, f, m, r) ==
    [name |-> n, rotationSpeed |-> s, funFact |-> f, hasMoon |-> m, hasRings |-> r]

planetsData ==
    << Planet("Mercury", 20, "Mercury is the smallest planet and closest to the Sun.", FALSE, FALSE),
       Planet("Venus", 15, "Venus has a thick atmosphere and is the hottest planet.", FALSE, FALSE),
       Planet("Earth", 10, "Earth is our home and the only planet known to support life.", TRUE, FALSE),
       Planet("Mars", 8, "Mars is known as the Red Planet, home to the tallest volcano.", FALSE, FALSE),
       Planet("Jupiter", 5, "Jupiter is the largest planet and features the Great Red Spot.", FALSE, FALSE),
       Planet("Saturn", 3, "Saturn is famous for its spectacular rings.", FALSE, TRUE),
       Planet("Uranus", 2, "Uranus rotates on its side, giving it extreme seasons.", FALSE, FALSE),
       Planet("Neptune", 1, "Neptune has supersonic winds and a deep blue color.", FALSE, FALSE) >>

moonSpeed == 50
FrameBaseline == 60
OverlayTimeout == 5000
TooltipOffset == 10
TriggerName == "Mars"

-----------------------------------------------------------------------------
(* Scene graph nodes *)

sun == <<"sun", 0>>
PlanetMesh(i) == <<"planet", i>>
OrbitGroup(i) == <<"orbit", i>>
MoonMesh(i) == <<"moon", i>>
MoonOrbit(i) == <<"moonOrbit", i>>
RingMesh(i) == <<"ring", i>>
NoObject == <<"none", 0>>
Undefined == "undefined"

Range(s) == { s[k] : k \in DOMAIN s }

\* The script's state at line 133: the sun is in the scene, both lists are empty.
EmptyGraph ==
    [sceneChildren |-> <<sun>>,
     children |-> (sun :> <<>>),
     userData |-> (sun :> [name |-> Undefined, funFact |-> Undefined]),
     planetOrbits |-> <<>>,
     hoverablePlanets |-> <<>>,
     rotation |-> <<>>]

\* createPlanetOrbit: a new group holding the planet mesh, added to the scene.
createPlanetOrbit(g, i, planetMesh) ==
    [g EXCEPT !.children = (OrbitGroup(i) :> <<planetMesh>>) @@ @,
              !.rotation = (OrbitGroup(i) :> 0) @@ @,
              !.sceneChildren = Append(@, OrbitGroup(i))]

\* The part of the loop body that builds the planet: lines 136-151.
BuildPlanet(g, planetData, i) ==
    LET g1 == [g EXCEPT !.children = (PlanetMesh(i) :> <<>>) @@ @,
                        !.userData = (PlanetMesh(i) :>
                            [name |-> planetData.name, funFact |-> planetData.funFact]) @@ @,
                        !.hoverablePlanets = Append(@, PlanetMesh(i))]
        g2 == createPlanetOrbit(g1, i, PlanetMesh(i))
    IN  [g2 EXCEPT !.planetOrbits =
            Append(@, [group |-> OrbitGroup(i), speed |-> planetData.rotationSpeed])]

\* Mutant: the moon mesh is also pushed on the pickable list.
BuildMoonPickable(g, planetData, i) ==
    IF planetData.hasMoon
    THEN [g EXCEPT !.children = (MoonMesh(i) :> <<>>) @@ (MoonOrbit(i) :> <<MoonMesh(i)>>)
                                @@ [@ EXCEPT ![PlanetMesh(i)] = Append(@, MoonOrbit(i))],
                   !.userData = (MoonMesh(i) :> [name |-> Undefined, funFact |-> Undefined]) @@ @,
                   !.rotation = (MoonOrbit(i) :> 0) @@ @,
                   !.hoverablePlanets = Append(@, MoonMesh(i)),
                   !.planetOrbits = Append(@, [group |-> MoonOrbit(i), speed |-> moonSpeed])]
    ELSE g

\* Lines 154-164: the moon, its orbit under the planet mesh, one animation entry.
BuildMoon(g, planetData, i) ==
    IF planetData.hasMoon
    THEN [g EXCEPT !.children = (MoonMesh(i) :> <<>>) @@ (MoonOrbit(i) :> <<MoonMesh(i)>>)
                                @@ [@ EXCEPT ![PlanetMesh(i)] = Append(@, MoonOrbit(i))],
                   !.userData = (MoonMesh(i) :> [name |-> Undefined, funFact |-> Undefined]) @@ @,
                   !.rotation = (MoonOrbit(i) :> 0) @@ @,
                   !.planetOrbits = Append(@, [group |-> MoonOrbit(i), speed |-> moonSpeed])]
    ELSE g

\* Lines 167-182: the ring mesh under the planet mesh.
BuildRings(g, planetData, i) ==
    IF planetData.hasRings
    THEN [g EXCEPT !.children = (RingMesh(i) :> <<>>)
                                @@ [@ EXCEPT ![PlanetMesh(i)] = Append(@, RingMesh(i))],
                   !.userData = (RingMesh(i) :> [name |-> Undefined, funFact |-> Undefined]) @@ @]
    ELSE g

\* One iteration of planetsData.forEach, lines 134-183.
BuildStep(g, planetData, i) ==
    BuildRings(BuildMoon(BuildPlanet(g, planetData, i), planetData, i), planetData, i)

RECURSIVE BuildSystem(_, _)
\* The forEach over the first n entries of a catalog.
BuildSystem(cat, n) ==
    IF n = 0 THEN EmptyGraph ELSE BuildStep(BuildSystem(cat, n - 1), cat[n], n)

-----------------------------------------------------------------------------
(* The animation loop, lines 196-210 *)

\* THREE.Clock.getDelta: the first call starts the clock and returns 0; a later
\* call returns the time since the previous call and restarts the interval.
getDelta(c, t) ==
    IF ~c.running
    THEN [delta |-> 0, clock |-> [running |-> TRUE, oldTime |-> t]]
    ELSE [delta |-> t - c.oldTime, clock |-> [running |-> TRUE, oldTime |-> t]]

\* Mutant: a frame's step is clamped to one tick.
RotationStepClamped(speed, delta) ==
    speed * (IF delta > 1000 THEN 1000 ELSE delta) * FrameBaseline

\* Line 203: item.speed * delta * 60.
RotationStep(speed, delta) == speed * delta * FrameBaseline

RECURSIVE forEachRotate(_, _, _, _)
\* Lines 202-204: planetOrbits.forEach over the first k entries.
forEachRotate(orbits, k, rot, delta) ==
    IF k = 0 THEN rot
    ELSE LET r == forEachRotate(orbits, k - 1, rot, delta)
         IN  [r EXCEPT ![orbits[k].group] = @ + RotationStep(orbits[k].speed, delta)]

\* Mutant: the rotation is applied whatever the flag says.
animateFrameNoFlag(orbits, rot, c, active, t) ==
    LET d == getDelta(c, t)
    IN  [delta |-> d.delta,
         clock |-> d.clock,
         rotation |-> forEachRotate(orbits, Len(orbits), rot, d.delta),
         controlsUpdates |-> 1,
         renders |-> 1]

\* Mutant: the clock is read only by the frames that rotate.
animateFrameLazyClock(orbits, rot, c, active, t) ==
    LET d == IF active THEN getDelta(c, t) ELSE [delta |-> 0, clock |-> c]
    IN  [delta |-> d.delta,
         clock |-> d.clock,
         rotation |-> IF active THEN forEachRotate(orbits, Len(orbits), rot, d.delta) ELSE rot,
         controlsUpdates |-> 1,
         renders |-> 1]

\* The body of animate, lines 199-208: what it leaves in the clock and the
\* angles, and how many control updates and renders it performs.
animateFrame(orbits, rot, c, active, t) ==
    LET d == getDelta(c, t)
    IN  [delta |-> d.delta,
         clock |-> d.clock,
         rotation |-> IF active THEN forEachRotate(orbits, Len(orbits), rot, d.delta) ELSE rot,
         controlsUpdates |-> 1,
         renders |-> 1]

-----------------------------------------------------------------------------
(* The pause flag, lines 186-193 *)

\* Mutant: the mouseup listener leaves the animation paused.
mouseupStuck == FALSE

\* The value the mousedown listener assigns, line 189.
onMouseDownValue == FALSE

\* The value the mouseup listener assigns, line 192.
onMouseUpValue == TRUE

-----------------------------------------------------------------------------
(* Picking, lines 222-229 and 242-249 *)

\* Lines 222-223 (and 242-243): pixel to normalised device coordinates, doubled.
toNdc(clientX, clientY, w) ==
    [x |-> (clientX * 4) \div w.innerWidth - 2,
     y |-> 2 - (clientY * 4) \div w.innerHeight]

ndcA == [x |-> 0, y |-> 0]
ndcB == [x |-> 2, y |-> -2]
ndcC == [x |-> -1, y |-> 1]

\* What the ray through a point of the viewport meets, nearest first, in each of
\* the views explored.  Views 1 to 4 are poses around the stock system (planet 3
\* is Earth with its moon, 4 Mars, 5 Jupiter, 6 Saturn with its rings); view 0
\* looks at the first two bodies of any catalog.
Geometry(v, m) ==
    CASE v = 0 /\ m = ndcA -> <<MoonMesh(1), PlanetMesh(1)>>
      [] v = 0 /\ m = ndcB -> <<RingMesh(1)>>
      [] v = 0 /\ m = ndcC -> <<PlanetMesh(2), PlanetMesh(1)>>
      [] v = 1 /\ m = ndcA -> <<PlanetMesh(4)>>
      [] v = 1 /\ m = ndcB -> <<>>
      [] v = 1 /\ m = ndcC -> <<MoonMesh(3), PlanetMesh(3)>>
      [] v = 2 /\ m = ndcA -> <<PlanetMesh(4), PlanetMesh(5)>>
      [] v = 2 /\ m = ndcB -> <<sun, PlanetMesh(4)>>
      [] v = 2 /\ m = ndcC -> <<MoonMesh(3)>>
      [] v = 3 /\ m = ndcA -> <<PlanetMesh(5), PlanetMesh(4)>>
      [] v = 3 /\ m = ndcB -> <<RingMesh(6), PlanetMesh(6)>>
      [] v = 3 /\ m = ndcC -> <<PlanetMesh(3), MoonMesh(3)>>
      [] v = 4 /\ m = ndcA -> <<sun>>
      [] v = 4 /\ m = ndcB -> <<RingMesh(6)>>
      [] v = 4 /\ m = ndcC -> <<PlanetMesh(2)>>
      [] OTHER -> <<>>

\* raycaster.setFromCamera: the ray, as the meshes of the scene it meets with
\* their distances along it.
setFromCamera(m, v, ch) ==
    LET met == Geometry(v, m)
    IN  [o \in { met[k] : k \in { j \in DOMAIN met : met[j] \in DOMAIN ch } } |->
            CHOOSE k \in DOMAIN met : met[k] = o]

RECURSIVE intersectObject(_, _, _, _)
RECURSIVE intersectChildren(_, _, _, _, _)
\* Raycaster's intersectObject: the object's own hit, then (if recursive) its
\* descendants', in traversal order.
intersectObject(object, rec, ray, ch) ==
    (IF object \in DOMAIN ray
     THEN <<[object |-> object, distance |-> ray[object]]>> ELSE <<>>)
    \o (IF rec THEN intersectChildren(ch[object], 1, rec, ray, ch) ELSE <<>>)

intersectChildren(kids, k, rec, ray, ch) ==
    IF k > Len(kids) THEN <<>>
    ELSE intersectObject(kids[k], rec, ray, ch) \o intersectChildren(kids, k + 1, rec, ray, ch)

RECURSIVE sortByDistance(_)
\* intersects.sort(ascSort): ascending distance, by insertion.
sortByDistance(hits) ==
    IF hits = <<>> THEN <<>>
    ELSE LET rest == sortByDistance(Tail(hits))
             h == Head(hits)
             before == SelectSeq(rest, LAMBDA e : e.distance < h.distance)
             after == SelectSeq(rest, LAMBDA e : e.distance >= h.distance)
         IN  before \o <<h>> \o after

RECURSIVE intersectList(_, _, _, _, _)
intersectList(objects, k, rec, ray, ch) ==
    IF k > Len(objects) THEN <<>>
    ELSE intersectObject(objects[k], rec, ray, ch) \o intersectList(objects, k + 1, rec, ray, ch)

\* raycaster.intersectObjects(objects): every listed object in order, sorted.
intersectObjects(objects, rec, ray, ch) ==
    sortByDistance(intersectList(objects, 1, rec, ray, ch))

\* Lines 228-229 and 248-249: intersects[0].object, if there is one.
firstObject(intersects) ==
    IF Len(intersects) > 0 THEN intersects[1].object ELSE NoObject

-----------------------------------------------------------------------------
(* The hover tooltip, lines 221-237 *)

NoTooltip == [display |-> "", name |-> "", funFact |-> "", left |-> 0, top |-> 0]

onMouseMove(tt, clientX, clientY, w, v, hov, ch, ud, rec) ==
    LET m == toNdc(clientX, clientY, w)
        intersects == intersectObjects(hov, rec, setFromCamera(m, v, ch), ch)
        intersected == firstObject(intersects)
    IN  [mouse |-> m,
         object |-> intersected,
         tooltip |-> IF Len(intersects) > 0
                     THEN [display |-> "block",
                           name |-> ud[intersected].name,
                           funFact |-> ud[intersected].funFact,
                           left |-> clientX + TooltipOffset,
                           top |-> clientY + TooltipOffset]
                     ELSE [tt EXCEPT !.display = "none"]]

-----------------------------------------------------------------------------
(* The Mars overlay, lines 241-278 *)

NoOverlay == [exists |-> FALSE, display |-> ""]

\* Mutant: the overlay is shown and no dismissal is armed.
showGifOverlayNoTimer(ov, tm, t) ==
    [gifOverlay |-> [exists |-> TRUE, display |-> "block"], timers |-> tm]

\* showGifOverlay, lines 256-278: create the element once, show it, arm a timer.
showGifOverlay(ov, tm, t) ==
    [gifOverlay |-> [exists |-> TRUE, display |-> "block"],
     timers |-> Append(tm, t + OverlayTimeout)]

\* Line 250: intersected.userData.name === "Mars".
isTrigger(name) == name = TriggerName

onClick(ov, tm, t, clientX, clientY, w, v, hov, ch, ud, rec) ==
    LET m == toNdc(clientX, clientY, w)
        intersects == intersectObjects(hov, rec, setFromCamera(m, v, ch), ch)
        intersected == firstObject(intersects)
        shows == Len(intersects) > 0 /\ isTrigger(ud[intersected].name)
        shown == IF shows THEN showGifOverlay(ov, tm, t)
                 ELSE [gifOverlay |-> ov, timers |-> tm]
    IN  [mouse |-> m, object |-> intersected, shows |-> shows,
         gifOverlay |-> shown.gifOverlay, timers |-> shown.timers]

\* The timer callback, line 276.
onTimeout(ov) == [ov EXCEPT !.display = "none"]

-----------------------------------------------------------------------------
(* The inputs explored *)

size800 == [innerWidth |-> 800, innerHeight |-> 600]
size400 == [innerWidth |-> 400, innerHeight |-> 300]
pointerA == [clientX |-> 400, clientY |-> 300]
pointerB == [clientX |-> 200, clientY |-> 150]

\* What each specification explores: the horizon and the tick of the wall clock,
\* the animate calls, the pending dismissals, the views, the window sizes, the
\* raycaster default and the pointer positions of mousemove and click.
AnimB ==
    [maxTime |-> AnimTicks * 1000, step |-> 1000, frames |-> AnimFrames,
     timers |-> SideTimers, views |-> {1}, sizes |-> {size800}, recursive |-> {TRUE},
     movePointers |-> {pointerA}, clickPointers |-> {pointerA}]

OverlayB ==
    [maxTime |-> OverlayTicks * 1000, step |-> 1000, frames |-> SideFrames,
     timers |-> OverlayTimers, views |-> {1}, sizes |-> {size800}, recursive |-> {TRUE},
     movePointers |-> {pointerA}, clickPointers |-> {pointerA, pointerB}]

LiveB ==
    [maxTime |-> LiveTicks * 1000, step |-> 1000, frames |-> SideFrames,
     timers |-> OverlayTimers, views |-> {1}, sizes |-> {size800}, recursive |-> {TRUE},
     movePointers |-> {pointerA}, clickPointers |-> {pointerA, pointerB}]

PickB ==
    [maxTime |-> OverlayTimeout, step |-> OverlayTimeout, frames |-> SideFrames,
     timers |-> SideTimers, views |-> {1, 2, 3, 4}, sizes |-> {size800, size400},
     recursive |-> BOOLEAN,
     movePointers |-> {pointerA, pointerB}, clickPointers |-> {pointerA, pointerB}]

BuildB ==
    [maxTime |-> OverlayTimeout, step |-> OverlayTimeout, frames |-> SideFrames,
     timers |-> SideTimers, views |-> {0}, sizes |-> {size800}, recursive |-> {TRUE},
     movePointers |-> {pointerA}, clickPointers |-> {pointerB}]

BoundedSeqs(S, n) == UNION { [1..k -> S] : k \in 0..n }

\* The catalogs of the build specification: every catalog of at most BuildLen
\* entries over four bodies, one per combination of the flags, and the stock catalog.
CatalogEntries ==
    { planetsData[4],
      planetsData[3],
      planetsData[6],
      Planet("Neptune", 1, "Neptune has supersonic winds and a deep blue color.", TRUE, TRUE) }

Catalogs == BoundedSeqs(CatalogEntries, BuildLen) \cup {planetsData}

-----------------------------------------------------------------------------
(* Initial states *)

NoPick == [seq |-> 0, type |-> "none", clientX |-> 0, clientY |-> 0, view |-> 0,
           win |-> size800, object |-> NoObject, shows |-> FALSE]
NoFrame == [n |-> 0, delta |-> 0, active |-> TRUE, before |-> <<>>,
            pausedStreak |-> 0, runStreak |-> 0, afterPause |-> FALSE]

InitCommon(B) ==
    /\ animationActive = TRUE
    /\ clock = [running |-> FALSE, oldTime |-> 0]
    /\ now = 0
    /\ controlsUpdates = 0
    /\ renders = 0
    /\ win \in B.sizes
    /\ mouse = [x |-> 0, y |-> 0]
    /\ view \in B.views
    /\ recursive \in B.recursive
    /\ tooltip = NoTooltip
    /\ gifOverlay = NoOverlay
    /\ timers = <<>>
    /\ lastPick = NoPick
    /\ lastFrame = NoFrame
    /\ lastButton = "none"
    /\ lastTrigger = -1
    /\ sumRunning = 0
    /\ lastFrameTime = -1

GraphIs(g) ==
    /\ sceneChildren = g.sceneChildren
    /\ children = g.children
    /\ userData = g.userData
    /\ planetOrbits = g.planetOrbits
    /\ hoverablePlanets = g.hoverablePlanets
    /\ rotation = g.rotation

\* The script at line 134, before the forEach, for any catalog.
InitBuild ==
    /\ pc = "build"
    /\ catalog \in Catalogs
    /\ buildIdx = 0
    /\ GraphIs(EmptyGraph)
    /\ InitCommon(BuildB)

\* The script at line 210, the stock system built, before the first animate call.
InitRun(B) ==
    /\ pc = "start"
    /\ catalog = planetsData
    /\ buildIdx = Len(planetsData)
    /\ GraphIs(BuildSystem(planetsData, Len(planetsData)))
    /\ InitCommon(B)

-----------------------------------------------------------------------------
(* Actions *)

Graph ==
    [sceneChildren |-> sceneChildren, children |-> children, userData |-> userData,
     planetOrbits |-> planetOrbits, hoverablePlanets |-> hoverablePlanets,
     rotation |-> rotation]

\* One iteration of the forEach at line 134.
ForEachStep ==
    /\ pc = "build"
    /\ buildIdx < Len(catalog)
    /\ LET g == BuildStep(Graph, catalog[buildIdx + 1], buildIdx + 1)
       IN  /\ sceneChildren' = g.sceneChildren
           /\ children' = g.children
           /\ userData' = g.userData
           /\ planetOrbits' = g.planetOrbits
           /\ hoverablePlanets' = g.hoverablePlanets
           /\ rotation' = g.rotation
    /\ buildIdx' = buildIdx + 1
    /\ UNCHANGED <<pc, catalog, animationActive, clock, now, controlsUpdates, renders, win,
                   mouse, view, recursive, tooltip, gifOverlay, timers, lastPick,
                   lastFrame, lastButton, lastTrigger, sumRunning, lastFrameTime>>

\* The forEach returns; the script goes on to line 186.
ForEachEnd ==
    /\ pc = "build"
    /\ buildIdx = Len(catalog)
    /\ pc' = "start"
    /\ UNCHANGED <<catalog, buildIdx, graphVars, rotation, animationActive, clock, now,
                   controlsUpdates, renders, win, mouse, view, recursive, tooltip,
                   gifOverlay, timers, lastPick, lastFrame, lastButton,
                   lastTrigger, sumRunning, lastFrameTime>>

\* animate: the call of line 210, then one call per display frame.  The frame
\* may leave the camera and the bodies anywhere (controls.update, the rotation).
Animate(B) ==
    /\ pc \in {"start", "run"}
    /\ lastFrame.n < B.frames
    /\ LET f == animateFrame(planetOrbits, rotation, clock, animationActive, now)
           since == IF lastFrameTime < 0 THEN 0 ELSE now - lastFrameTime
       IN  /\ rotation' = f.rotation
           /\ clock' = f.clock
           /\ controlsUpdates' = controlsUpdates + f.controlsUpdates
           /\ renders' = renders + f.renders
           /\ sumRunning' = sumRunning + (IF animationActive THEN since ELSE 0)
           /\ lastFrame' =
                [n |-> lastFrame.n + 1, delta |-> since,
                 active |-> animationActive, before |-> rotation,
                 pausedStreak |-> IF ~animationActive /\ since > 0
                                  THEN lastFrame.pausedStreak + 1 ELSE 0,
                 runStreak |-> IF animationActive /\ since > 0
                               THEN lastFrame.runStreak + 1 ELSE 0,
                 afterPause |-> lastFrame.pausedStreak > 0]
    /\ lastFrameTime' = now
    /\ pc' = "run"
    /\ view' \in B.views
    /\ UNCHANGED <<buildVars, graphVars, flagVars, now, win, mouse, recursive, tooltip,
                   overlayVars, lastPick>>

\* Time passes; a due timer runs before time passes it.
Tick(B) ==
    /\ pc = "run"
    /\ now + B.step <= B.maxTime
    /\ \A k \in DOMAIN timers : timers[k] >= now + B.step
    /\ now' = now + B.step
    /\ UNCHANGED <<pc, buildVars, graphVars, frameVars, flagVars, win, mouse, view,
                   recursive, tooltip, overlayVars, lastPick>>

\* The mousedown listener, lines 188-190.
MouseDown ==
    /\ pc = "run"
    /\ animationActive' = onMouseDownValue
    /\ lastButton' = "mousedown"
    /\ UNCHANGED <<pc, buildVars, graphVars, frameVars, now, win, mouse, view, recursive,
                   tooltip, overlayVars, lastPick>>

\* The mouseup listener, lines 191-193.
MouseUp ==
    /\ pc = "run"
    /\ animationActive' = onMouseUpValue
    /\ lastButton' = "mouseup"
    /\ UNCHANGED <<pc, buildVars, graphVars, frameVars, now, win, mouse, view, recursive,
                   tooltip, overlayVars, lastPick>>

\* The mousemove listener, lines 220-237.
MouseMove(B) ==
    /\ pc = "run"
    /\ \E p \in B.movePointers :
         LET r == onMouseMove(tooltip, p.clientX, p.clientY, win, view,
                              hoverablePlanets, children, userData, recursive)
         IN  /\ mouse' = r.mouse
             /\ tooltip' = r.tooltip
             /\ lastPick' = [seq |-> lastPick.seq, type |-> "mousemove",
                             clientX |-> p.clientX, clientY |-> p.clientY,
                             view |-> view, win |-> win, object |-> r.object,
                             shows |-> FALSE]
    /\ UNCHANGED <<pc, buildVars, graphVars, frameVars, flagVars, now, win, view,
                   recursive, overlayVars>>

\* The click listener, lines 240-254, with showGifOverlay.
Click(B) ==
    /\ pc = "run"
    /\ \E p \in B.clickPointers :
         LET r == onClick(gifOverlay, timers, now, p.clientX, p.clientY, win, view,
                          hoverablePlanets, children, userData, recursive)
         IN  /\ r.shows => (Len(timers) < B.timers /\ now + OverlayTimeout <= B.maxTime)
             /\ mouse' = r.mouse
             /\ gifOverlay' = r.gifOverlay
             /\ timers' = r.timers
             /\ lastTrigger' = IF r.shows THEN now ELSE lastTrigger
             /\ lastPick' = [seq |-> 1 - lastPick.seq, type |-> "click",
                              clientX |-> p.clientX, clientY |-> p.clientY,
                              view |-> view, win |-> win, object |-> r.object,
                              shows |-> r.shows]
    /\ UNCHANGED <<pc, buildVars, graphVars, frameVars, flagVars, now, win, view,
                   recursive, tooltip>>

\* The resize listener, lines 213-217: the projection follows the window.
Resize(B) ==
    /\ pc = "run"
    /\ win' \in B.sizes
    /\ view' \in B.views
    /\ UNCHANGED <<pc, buildVars, graphVars, frameVars, flagVars, now, mouse, recursive,
                   tooltip, overlayVars, lastPick>>

\* The oldest pending dismissal runs once it is due, lines 275-277.
TimerFire ==
    /\ pc = "run"
    /\ timers # <<>>
    /\ Head(timers) <= now
    /\ gifOverlay' = onTimeout(gifOverlay)
    /\ timers' = Tail(timers)
    /\ UNCHANGED <<pc, buildVars, graphVars, frameVars, flagVars, now, win, mouse, view,
                   recursive, tooltip, lastTrigger, lastPick>>

NextRun(B) ==
    \/ Animate(B)
    \/ Tick(B)
    \/ MouseDown
    \/ MouseUp
    \/ MouseMove(B)
    \/ Click(B)
    \/ Resize(B)
    \/ TimerFire

NextAnim == NextRun(AnimB)
NextOverlay == NextRun(OverlayB)
NextLive == NextRun(LiveB)
NextPick == NextRun(PickB)
NextBuild == ForEachStep \/ ForEachEnd \/ NextRun(BuildB)

\* The animation loop and the pause flag, with the other handlers around them.
SpecAnim == InitRun(AnimB) /\ [][NextAnim]_vars

\* The overlay and its timers.
SpecOverlay == InitRun(OverlayB) /\ [][NextOverlay]_vars

\* The overlay and its timers under the browser's scheduling: time passes, and
\* the event loop runs a timer callback that is due.
SpecLive ==
    /\ InitRun(LiveB)
    /\ [][NextLive]_vars
    /\ WF_vars(Tick(LiveB))
    /\ WF_vars(TimerFire)

\* Picking over several views and window sizes.
SpecPick == InitRun(PickB) /\ [][NextPick]_vars

\* The build loop over any catalog, followed by the running page.
SpecBuild == InitBuild /\ [][NextBuild]_vars

-----------------------------------------------------------------------------
(* Properties *)

FrameStep == lastFrame'.n = lastFrame.n + 1
ClickStep == lastPick'.seq # lastPick.seq /\ lastPick'.type = "click"
Pickables == Range(hoverablePlanets)
Visible == gifOverlay.display = "block"

\* C1: a dismissal armed by an earlier trigger never hides the overlay before
\* 5000 ms have passed since the latest trigger (trigger at 0 and at 3000:
\* still visible at 5000, hidden only at 8000).
C1_RearmResetsWindow ==
    [][(Visible /\ gifOverlay'.display = "none") => now >= lastTrigger + OverlayTimeout]_vars

\* C2: the flag starts Running, mousedown pauses it, mouseup resumes it, and
\* nothing else moves it: it is Paused exactly when the most recent of the
\* mousedown / mouseup events was a mousedown.
C2_PauseFlagMachine ==
    /\ animationActive \in BOOLEAN
    /\ animationActive <=> (lastButton # "mousedown")

C2_Witness ==
    /\ lastButton = "mouseup"
    /\ animationActive
    /\ lastFrame.n >= 2
    /\ lastPick.type = "click"
    /\ now > 0

\* C3: a frame executed while Paused changes no rotation angle, whatever its
\* delta and however many paused frames precede it, and still performs one
\* camera-control update and one render.
C3_PausedFrame ==
    [][(FrameStep /\ ~animationActive) =>
          /\ rotation' = rotation
          /\ controlsUpdates' = controlsUpdates + 1
          /\ renders' = renders + 1]_vars

C3_Witness ==
    /\ lastFrame.pausedStreak >= 2
    /\ lastFrame.delta > 0
    /\ rotation = lastFrame.before
    /\ renders = lastFrame.n

\* What the build is to produce from the first n entries of a catalog.
RECURSIVE ExpectedOrbits(_, _)
ExpectedOrbits(cat, n) ==
    IF n = 0 THEN <<>>
    ELSE ExpectedOrbits(cat, n - 1)
         \o <<[group |-> OrbitGroup(n), speed |-> cat[n].rotationSpeed]>>
         \o (IF cat[n].hasMoon THEN <<[group |-> MoonOrbit(n), speed |-> 50]>> ELSE <<>>)

StockNames ==
    <<"Mercury", "Venus", "Earth", "Mars", "Jupiter", "Saturn", "Uranus", "Neptune">>

\* C4: after n iterations the animation list holds, in catalog order, one entry
\* per planet with the entry's rotationSpeed and one more entry at speed 0.05
\* exactly for the entries with hasMoon, the pickable list holds exactly the n
\* planet meshes in catalog order (no moon, ring or sun), and no later frame or
\* event changes either list; the stock catalog gives 9 entries and 8 pickables,
\* Mercury to Neptune.
C4_BuildLists ==
    /\ planetOrbits = ExpectedOrbits(catalog, buildIdx)
    /\ hoverablePlanets = [k \in 1..buildIdx |-> PlanetMesh(k)]
    /\ \A k \in 1..buildIdx :
         userData[PlanetMesh(k)] = [name |-> catalog[k].name, funFact |-> catalog[k].funFact]
    /\ Len(planetOrbits) = buildIdx + Cardinality({k \in 1..buildIdx : catalog[k].hasMoon})
    /\ pc # "build" => buildIdx = Len(catalog)
    /\ (catalog = planetsData /\ pc # "build") =>
         /\ Len(planetOrbits) = 9
         /\ Len(hoverablePlanets) = 8
         /\ [k \in 1..8 |-> userData[hoverablePlanets[k]].name] = StockNames

C4_Witness ==
    /\ pc = "run"
    /\ catalog = planetsData
    /\ Len(planetOrbits) = 9
    /\ lastPick.type = "click"
    /\ lastButton = "mouseup"
    /\ now > 0

\* C5: the object a hover or a click resolves as its hit is one of the meshes of
\* hoverablePlanets, carrying name and funFact; never the moon, the ring or the sun.
C5_HitIsPickable ==
    (lastPick.type # "none" /\ lastPick.object # NoObject) =>
        /\ lastPick.object \in Pickables
        /\ userData[lastPick.object].name # Undefined
        /\ userData[lastPick.object].funFact # Undefined

\* The registry member the ray through a pointer position meets first, if any.
NearestMember(p) ==
    LET ray == setFromCamera(toNdc(p.clientX, p.clientY, p.win), p.view, children)
        met == { o \in Pickables : o \in DOMAIN ray }
    IN  IF met = {} THEN NoObject
        ELSE CHOOSE o \in met : \A q \in met : ray[o] <= ray[q]

\* C6: a pick returns none when the ray meets no member of the pickable list and
\* otherwise the member met first; that member decides the Mars test; the result
\* is a function of the pointer position, the camera and the scene, so two picks
\* that agree on these agree on the result.
C6_PickIsNearestMember ==
    lastPick.type # "none" =>
        /\ lastPick.object = NearestMember(lastPick)
        /\ lastPick.type = "click" =>
             (lastPick.shows <=>
                 (NearestMember(lastPick) # NoObject
                  /\ userData[NearestMember(lastPick)].name = "Mars"))

\* C8: after a mousemove the tooltip is visible exactly if the pick returned a
\* planet, and then shows that planet's name and funFact at the pointer position
\* of this event.
C8_TooltipFollowsMove ==
    lastPick.type = "mousemove" =>
        /\ tooltip.display \in {"block", "none"}
        /\ tooltip.display = "block" <=> lastPick.object \in Pickables
        /\ tooltip.display = "block" =>
             /\ tooltip.name = userData[lastPick.object].name
             /\ tooltip.funFact = userData[lastPick.object].funFact
             /\ tooltip.left = lastPick.clientX + 10
             /\ tooltip.top = lastPick.clientY + 10

\* C7: two consecutive Running frames with elapsed times t1 and t2 leave every
\* angle where one Running frame with elapsed time t1 + t2 would, each angle
\* having grown by speed * (t1 + t2) * 60; a frame with elapsed time 0 changes
\* no angle.
C7_LinearInTime ==
    [][FrameStep =>
         /\ (lastFrame.n >= 1 /\ lastFrame.active /\ animationActive) =>
              LET t1 == lastFrame.delta
                  t2 == lastFrame'.delta
                  once == animateFrame(planetOrbits, lastFrame.before,
                                       [running |-> TRUE, oldTime |-> 0], TRUE, t1 + t2)
              IN  /\ rotation' = once.rotation
                  /\ \A k \in DOMAIN planetOrbits :
                       rotation'[planetOrbits[k].group] =
                           lastFrame.before[planetOrbits[k].group]
                           + planetOrbits[k].speed * (t1 + t2) * 60
         /\ lastFrame'.delta = 0 => rotation' = rotation]_vars

C7_Witness ==
    /\ lastFrame.runStreak >= 2
    /\ lastFrame.delta > 0
    /\ rotation # lastFrame.before

C10_OnlyRunningDeltas ==
    /\ \A k \in DOMAIN planetOrbits :
         rotation[planetOrbits[k].group] = planetOrbits[k].speed * 60 * sumRunning
    /\ clock.running => clock.oldTime = lastFrameTime

C10_Witness ==
    /\ lastFrame.active
    /\ lastFrame.delta > 0
    /\ lastFrame.afterPause
    /\ sumRunning > lastFrame.delta
    /\ sumRunning < lastFrameTime

=============================================================================
